---- MODULE Spec2Model ----
(***************************************************************************)
(* Student Management System (student-managmenet.py): the record store,   *)
(* its validation, search/selection, the CRUD workflows, persistence to   *)
(* students.json and the menu loop, as a state machine.                   *)
(*                                                                         *)
(* Text typed by the user is a sequence of one-character strings.  A      *)
(* float is held in hundredths (15.5 is 1550).  Python indexes are kept   *)
(* zero-based, as in the source; TLA+ sequences are one-based.            *)
(***************************************************************************)
EXTENDS Integers, Sequences, FiniteSets, TLC

VARIABLES students, file, pc, out, locals, faults_left

vars == <<students, file, pc, out, locals, faults_left>>

(***************************************************************************)
(* Bounds of the model.                                                    *)
(***************************************************************************)
MaxStudents == 2
MaxSaveFailures == 1
MaxChooseLen == 3

(***************************************************************************)
(* Characters and Python's str methods.                                    *)
(***************************************************************************)
Digits == <<"0", "1", "2", "3", "4", "5", "6", "7", "8", "9">>
LowerLetters == <<"a", "b", "d", "e", "l", "n", "o", "t", "x", "z">>
UpperLetters == <<"A", "B", "D", "E", "L", "N", "O", "T", "X", "Z">>

IsDigit(c) == \E i \in DOMAIN Digits : Digits[i] = c
DigitVal(c) == (CHOOSE i \in DOMAIN Digits : Digits[i] = c) - 1
IsLower(c) == \E i \in DOMAIN LowerLetters : LowerLetters[i] = c
IsUpper(c) == \E i \in DOMAIN UpperLetters : UpperLetters[i] = c
IsCased(c) == IsLower(c) \/ IsUpper(c)
IsSpace(c) == c = " "

ToLower(c) ==
    IF IsUpper(c)
    THEN LowerLetters[CHOOSE i \in DOMAIN UpperLetters : UpperLetters[i] = c]
    ELSE c

ToUpper(c) ==
    IF IsLower(c)
    THEN UpperLetters[CHOOSE i \in DOMAIN LowerLetters : LowerLetters[i] = c]
    ELSE c

RECURSIVE lstrip(_)
lstrip(s) == IF s # <<>> /\ IsSpace(Head(s)) THEN lstrip(Tail(s)) ELSE s

RECURSIVE rstrip(_)
rstrip(s) ==
    IF s # <<>> /\ IsSpace(s[Len(s)]) THEN rstrip(SubSeq(s, 1, Len(s) - 1)) ELSE s

\* str.strip()
strip(s) == rstrip(lstrip(s))

\* str.lower(), str.upper()
lower(s) == [i \in 1..Len(s) |-> ToLower(s[i])]
upper(s) == [i \in 1..Len(s) |-> ToUpper(s[i])]

\* str.title(): a cased character is upper-cased unless the character before
\* it is cased, and then it is lower-cased.
title(s) ==
    [i \in 1..Len(s) |->
        IF i > 1 /\ IsCased(s[i - 1]) THEN ToLower(s[i]) ELSE ToUpper(s[i])]

\* str.isdigit()
isdigit(s) == s # <<>> /\ \A i \in 1..Len(s) : IsDigit(s[i])

\* q in t (substring test)
Contains(q, t) ==
    \E k \in 0..(Len(t) - Len(q)) : SubSeq(t, k + 1, k + Len(q)) = q

RECURSIVE DigitsValue(_)
DigitsValue(s) ==
    IF s = <<>> THEN 0
    ELSE 10 * DigitsValue(SubSeq(s, 1, Len(s) - 1)) + DigitVal(s[Len(s)])

IsSign(c) == c = "-" \/ c = "+"
Unsigned(s) == IF s # <<>> /\ IsSign(Head(s)) THEN Tail(s) ELSE s
SignOf(s) == IF s # <<>> /\ Head(s) = "-" THEN -1 ELSE 1

\* int(value) / None: surrounding blanks, an optional sign, decimal digits.
safe_int(value) ==
    LET t == strip(value)
        d == Unsigned(t)
    IN  IF isdigit(d)
        THEN [ok |-> TRUE, n |-> SignOf(t) * DigitsValue(d)]
        ELSE [ok |-> FALSE, n |-> 0]

PointAt(d) == IF \E i \in 1..Len(d) : d[i] = "."
              THEN CHOOSE i \in 1..Len(d) : d[i] = "." /\ \A j \in 1..(i - 1) : d[j] # "."
              ELSE 0

AllDigits(s) == \A i \in 1..Len(s) : IsDigit(s[i])

\* float(value) / None, in hundredths: surrounding blanks, an optional sign,
\* then "nan" or digits with an optional point (at most two decimals here;
\* exponents and "inf" are not in the alphabet of the inputs).
safe_float(value) ==
    LET t == strip(value)
        d == Unsigned(t)
        p == PointAt(d)
        ip == IF p = 0 THEN d ELSE SubSeq(d, 1, p - 1)
        fp == IF p = 0 THEN <<>> ELSE SubSeq(d, p + 1, Len(d))
        frac == IF Len(fp) = 0 THEN 0
                ELSE IF Len(fp) = 1 THEN 10 * DigitsValue(fp)
                ELSE DigitsValue(fp)
    IN  IF lower(d) = <<"n", "a", "n">>
        THEN [ok |-> TRUE, nan |-> TRUE, h |-> 0]
        ELSE IF /\ AllDigits(ip) /\ AllDigits(fp)
                /\ Len(ip) + Len(fp) > 0
                /\ Len(fp) <= 2
        THEN [ok |-> TRUE, nan |-> FALSE,
              h |-> SignOf(t) * (100 * DigitsValue(ip) + frac)]
        ELSE [ok |-> FALSE, nan |-> FALSE, h |-> 0]

(***************************************************************************)
(* JSON values and student dicts.                                          *)
(***************************************************************************)
JStr(s) == [t |-> "str", n |-> 0, s |-> s]
JInt(n) == [t |-> "int", n |-> n, s |-> <<>>]
JFloat(h) == [t |-> "float", n |-> h, s |-> <<>>]
JNull == [t |-> "null", n |-> 0, s |-> <<>>]
Missing == [t |-> "missing", n |-> 0, s |-> <<>>]

\* A list element: a dict with some of the keys name, age, grade, or
\* (dict = FALSE) a JSON value that is no dict.
Dict(name, age, grade) == [dict |-> TRUE, name |-> name, age |-> age, grade |-> grade]
NotADict == [dict |-> FALSE, name |-> Missing, age |-> Missing, grade |-> Missing]

\* d.get(key, default)
Get(v, default) == IF v.t = "missing" THEN default ELSE v

\* Student(name, age, grade).to_dict()
ToDict(name, age, grade) == Dict(JStr(title(strip(name))), JInt(age), JFloat(grade))

(***************************************************************************)
(* Validations.                                                            *)
(***************************************************************************)
valid_name(name) == name # <<>> /\ strip(name) # <<>> /\ ~isdigit(strip(name))

valid_age_offbyone(age) == age >= 0 /\ age < 150
valid_age(age) == age > 0 /\ age < 150

\* grade: a parsed float in hundredths, or nan
valid_grade(grade) == ~grade.nan /\ 0 <= grade.h /\ grade.h <= 2000

(***************************************************************************)
(* What float(...) and the format specifications raise on loaded values.   *)
(***************************************************************************)
\* float(v) raises: TypeError on null, ValueError on a string that is no number
FloatRaises(v) ==
    \/ v.t = "null"
    \/ v.t = "str" /\ ~safe_float(v.s).ok

\* float(s.get('grade', 0)) raises
GradeRaises(s) == FloatRaises(Get(s.grade, JInt(0)))

\* f"{s.get('name', ''):20}" raises (None has no format specification)
NameFormatRaises(s) == Get(s.name, JStr(<<>>)).t = "null"

\* s.get(...) raises: the list element is no dict
GetRaises(s) == ~s.dict

\* s.get('name', '').lower() raises: the element is no dict or its name no string
LowerRaises(s) == GetRaises(s) \/ Get(s.name, JStr(<<>>)).t # "str"

(***************************************************************************)
(* Search and selection.                                                   *)
(***************************************************************************)
None == -1

NameMatches(s, query) == Contains(lower(strip(query)), lower(Get(s.name, JStr(<<>>)).s))

RECURSIVE FindFrom(_, _, _)
FindFrom(studs, query, idx) ==
    IF idx >= Len(studs) THEN <<>>
    ELSE (IF NameMatches(studs[idx + 1], query)
          THEN <<(<<idx, studs[idx + 1]>>)>> ELSE <<>>)
         \o FindFrom(studs, query, idx + 1)

\* the (index, record) pairs whose name holds the query, in store order
find_students_by_name(studs, query) == FindFrom(studs, query, 0)

FindRaises(studs) == \E i \in 1..Len(studs) : LowerRaises(studs[i])

\* the index the user's choice selects, or None
choose_from_results_position(results, choice) ==
    LET c == safe_int(choice)
    IN  IF results = <<>> THEN None
        ELSE IF Len(results) = 1 THEN results[1][1]
        ELSE IF ~c.ok \/ c.n < 0 \/ c.n > Len(results) THEN None
        ELSE IF c.n = 0 THEN None
        ELSE c.n - 1

choose_from_results(results, choice) ==
    LET c == safe_int(choice)
    IN  IF results = <<>> THEN None
        ELSE IF Len(results) = 1 THEN results[1][1]
        ELSE IF ~c.ok \/ c.n < 0 \/ c.n > Len(results) THEN None
        ELSE IF c.n = 0 THEN None
        ELSE results[c.n][1]

\* "Invalid selection." is printed
InvalidSelection(results, choice) ==
    LET c == safe_int(choice)
    IN  Len(results) >= 2 /\ (~c.ok \/ c.n < 0 \/ c.n > Len(results))

\* listing the candidates raises
ChooseRaises(results) ==
    Len(results) >= 2 /\ \E i \in 1..Len(results) : GradeRaises(results[i][2])

\* list.pop(): without an index the last element goes
pop_default(studs, i) == SubSeq(studs, 1, Len(studs) - 1)
\* list.pop(i)
pop(studs, i) == SubSeq(studs, 1, i) \o SubSeq(studs, i + 2, Len(studs))

(***************************************************************************)
(* The data file.                                                          *)
(***************************************************************************)
AbsentFile == [kind |-> "absent", data |-> <<>>]
ListFile(studs) == [kind |-> "list", data |-> studs]
\* valid JSON whose top-level value is no list
NonListFile == [kind |-> "nonlist", data |-> <<>>]
\* no valid JSON
GarbageFile == [kind |-> "garbage", data |-> <<>>]
\* opened with mode 'w' (truncated) and not written to the end
TruncatedFile == [kind |-> "truncated", data |-> <<>>]

SaveOutcomes ==
    IF faults_left > 0 THEN {"ok", "open_fail", "write_fail"} ELSE {"ok"}

FaultsAfter(outcome) == IF outcome = "ok" THEN faults_left ELSE faults_left - 1

\* the file after save_students(studs)
save_students_skipped(studs, outcome) == file
save_students(studs, outcome) ==
    IF outcome = "ok" THEN ListFile(studs)
    ELSE IF outcome = "open_fail" THEN file
    ELSE TruncatedFile

\* what save_students prints
SaveMessages(outcome) == IF outcome = "ok" THEN <<>> ELSE <<"save_error">>

(***************************************************************************)
(* What the user may type.                                                 *)
(***************************************************************************)
NameInputs ==
    { <<"a", "n", "a">>, <<" ", "d", "A", "n">>, <<"b", "o", " ", "b">>,
      <<" ">>, <<"1", "2">> }
AgeInputs ==
    { <<"0">>, <<"1">>, <<"1", "4", "9">>, <<"1", "5", "0">>, <<"x">> }
GradeInputs ==
    { <<"0">>, <<"2", "0">>, <<"-", "0", ".", "0", "1">>,
      <<"2", "0", ".", "0", "1">>, <<"x">>, <<"n", "a", "n">> }
Queries == { <<"A", "n">>, <<"d">>, <<" ">>, <<"z">> }
Choices == { <<"0">>, <<"1">>, <<"2">>, <<"3">>, <<"-", "1">>, <<"x">> }
Options == { <<"1">>, <<"2">>, <<"3">>, <<"0">>, <<"9">> }
Confirmations ==
    { <<"d", "e", "l", "e", "t", "e">>, <<" ", "D", "e", "l", "e", "t", "e">>,
      <<"n", "o">>, <<>> }
DELETE == <<"D", "E", "L", "E", "T", "E">>

(***************************************************************************)
(* The locals of the running operation, kept while it sleeps in            *)
(* animated_message between its prompts and its save.                      *)
(***************************************************************************)
NoLocals ==
    [query |-> <<>>, choice |-> <<>>, real_index |-> None, opt |-> <<>>,
     name |-> <<>>, age |-> 0, grade |-> 0]

\* print a message and wait in pause() for Enter
Reject(msg) ==
    /\ pc' = "pause"
    /\ out' = msg
    /\ locals' = NoLocals
    /\ UNCHANGED <<students, file, faults_left>>

\* an exception nothing catches: traceback, the process ends
Crash ==
    /\ pc' = "crashed"
    /\ out' = <<"traceback">>
    /\ locals' = NoLocals
    /\ UNCHANGED <<students, file, faults_left>>

(***************************************************************************)
(* load_students, at process start.                                        *)
(***************************************************************************)
LoadStudents ==
    /\ pc = "start"
    /\ locals' = NoLocals
    /\ file' = file
    /\ IF file.kind = "absent"
       THEN students' = <<>> /\ out' = <<>> /\ faults_left' = faults_left
       ELSE \E outcome \in (IF faults_left > 0 THEN {"ok", "read_fail"} ELSE {"ok"}) :
              /\ faults_left' = FaultsAfter(outcome)
              /\ IF outcome = "read_fail"
                 THEN students' = <<>> /\ out' = <<"load_warning">>
                 ELSE IF file.kind = "list"
                 THEN students' = file.data /\ out' = <<>>
                 ELSE IF file.kind = "nonlist"
                 THEN students' = <<>> /\ out' = <<>>
                 ELSE students' = <<>> /\ out' = <<"load_warning">>
    \* the warning is followed by pause()
    /\ pc' = IF out' = <<>> THEN "menu" ELSE "pause"

(***************************************************************************)
(* add_student: the prompts, then (after the "Saving" animation) the       *)
(* append and the save.                                                    *)
(***************************************************************************)
AddStudent ==
    /\ pc = "menu"
    /\ \E name_in \in NameInputs :
         LET name == strip(name_in)
         IN  IF ~valid_name(name) THEN Reject(<<"invalid_name">>)
             ELSE \E age_in \in AgeInputs :
                    LET age == safe_int(age_in)
                    IN  IF ~age.ok \/ ~valid_age(age.n) THEN Reject(<<"invalid_age">>)
                        ELSE \E grade_in \in GradeInputs :
                               LET grade == safe_float(grade_in)
                               IN  IF ~grade.ok \/ ~valid_grade(grade)
                                   THEN Reject(<<"invalid_grade">>)
                                   ELSE /\ Len(students) < MaxStudents
                                        /\ pc' = "add_saving"
                                        /\ out' = <<>>
                                        /\ locals' = [NoLocals EXCEPT !.name = name,
                                                         !.age = age.n, !.grade = grade.h]
                                        /\ UNCHANGED <<students, file, faults_left>>

AddSave ==
    /\ pc = "add_saving"
    /\ \E outcome \in SaveOutcomes :
         LET s == Append(students, ToDict(locals.name, locals.age, locals.grade))
         IN  /\ students' = s
             /\ file' = save_students(s, outcome)
             /\ faults_left' = FaultsAfter(outcome)
             /\ out' = SaveMessages(outcome) \o <<"added">>
    /\ pc' = "pause"
    /\ locals' = NoLocals

(***************************************************************************)
(* display_students, search, export, and the menu's own branches.          *)
(***************************************************************************)
DisplayRaises(studs) ==
    \E i \in 1..Len(studs) :
        GetRaises(studs[i]) \/ NameFormatRaises(studs[i]) \/ GradeRaises(studs[i])

\* the table and the average grade are printed, nothing is stored
DisplayStudents ==
    /\ pc = "menu"
    /\ IF students = <<>> THEN Reject(<<"no_students">>)
       ELSE IF DisplayRaises(students) THEN Crash
       ELSE Reject(<<"listed">>)

SearchStudent ==
    /\ pc = "menu"
    /\ \E q \in Queries :
         IF FindRaises(students) THEN Crash
         ELSE LET results == find_students_by_name(students, q)
              IN  IF results = <<>> THEN Reject(<<"search_no_matches">>)
                  ELSE IF \E i \in 1..Len(results) : GradeRaises(results[i][2])
                  THEN Crash
                  ELSE Reject(<<"search_results">>)

\* export_to_csv writes students.csv, which no operation reads back
ExportCsv ==
    /\ pc = "menu"
    /\ IF \E i \in 1..Len(students) : GetRaises(students[i]) THEN Crash
       ELSE \E outcome \in SaveOutcomes :
              /\ pc' = "pause"
              /\ out' = IF outcome = "ok" THEN <<"exported">> ELSE <<"export_failed">>
              /\ locals' = NoLocals
              /\ faults_left' = FaultsAfter(outcome)
              /\ UNCHANGED <<students, file>>

InvalidChoice ==
    /\ pc = "menu"
    /\ Reject(<<"invalid_menu_choice">>)

Exit ==
    /\ pc = "menu"
    /\ pc' = "exited"
    /\ out' = <<"closed">>
    /\ UNCHANGED <<students, file, locals, faults_left>>

\* Enter at the pause() prompt that ends an operation (after an invalid menu
\* choice, the end of time.sleep(1)): back to the menu
Continue ==
    /\ pc = "pause"
    /\ pc' = "menu"
    /\ out' = <<>>
    /\ UNCHANGED <<students, file, locals, faults_left>>

\* KeyboardInterrupt while the process waits in input() or time.sleep()
Interrupt ==
    /\ pc \in {"start", "menu", "pause", "add_saving", "updating", "deleting"}
    /\ pc' = "exited"
    /\ out' = <<"interrupted">>
    /\ locals' = NoLocals
    /\ UNCHANGED <<students, file, faults_left>>

(***************************************************************************)
(* update_student: search, selection, the sub-menu and the assignment to   *)
(* the selected dict; then (after the "Updating" animation) the save.      *)
(***************************************************************************)
\* the dict after s['name'] = new_name.title() / s['age'] = new_age /
\* s['grade'] = float(new_grade)
UpdateFieldRaw(s, opt, name, age, grade) ==
    IF opt = <<"1">> THEN [s EXCEPT !.name = JStr(name)]
    ELSE IF opt = <<"2">> THEN [s EXCEPT !.age = JInt(age)]
    ELSE [s EXCEPT !.grade = JFloat(grade)]

UpdateField(s, opt, name, age, grade) ==
    IF opt = <<"1">> THEN [s EXCEPT !.name = JStr(title(name))]
    ELSE IF opt = <<"2">> THEN [s EXCEPT !.age = JInt(age)]
    ELSE [s EXCEPT !.grade = JFloat(grade)]

\* the assignment, and on to the animation before the save
UpdateAssign(query, choice, real_index, opt, name, age, grade) ==
    /\ students' = [students EXCEPT ![real_index + 1] =
                        UpdateField(students[real_index + 1], opt, name, age, grade)]
    /\ pc' = "updating"
    /\ out' = <<>>
    /\ locals' = [query |-> query, choice |-> choice, real_index |-> real_index,
                  opt |-> opt, name |-> name, age |-> age, grade |-> grade]
    /\ UNCHANGED <<file, faults_left>>

\* the sub-menu: one field, validated
UpdateOption(query, choice, real_index) ==
    \E opt \in Options :
        IF opt = <<"1">>
        THEN \E name_in \in NameInputs :
               LET new_name == strip(name_in)
               IN  IF ~valid_name(new_name) THEN Reject(<<"invalid_name">>)
                   ELSE UpdateAssign(query, choice, real_index, opt, new_name, 0, 0)
        ELSE IF opt = <<"2">>
        THEN \E age_in \in AgeInputs :
               LET new_age == safe_int(age_in)
               IN  IF ~new_age.ok \/ ~valid_age(new_age.n) THEN Reject(<<"invalid_age">>)
                   ELSE UpdateAssign(query, choice, real_index, opt, <<>>, new_age.n, 0)
        ELSE IF opt = <<"3">>
        THEN \E grade_in \in GradeInputs :
               LET new_grade == safe_float(grade_in)
               IN  IF ~new_grade.ok \/ ~valid_grade(new_grade)
                   THEN Reject(<<"invalid_grade">>)
                   ELSE UpdateAssign(query, choice, real_index, opt, <<>>, 0, new_grade.h)
        ELSE IF opt = <<"0">> THEN Reject(<<"cancelled">>)
        ELSE Reject(<<"invalid_choice">>)

\* the choice read by choose_from_results: none when it does not prompt
ChoicesFor(results) == IF Len(results) >= 2 THEN Choices ELSE {<<>>}

CancelMessages(results, choice) ==
    IF InvalidSelection(results, choice)
    THEN <<"invalid_selection", "cancelling">> ELSE <<"cancelling">>

UpdateStudent ==
    /\ pc = "menu"
    /\ IF students = <<>> THEN Reject(<<"no_students">>)
       ELSE \E query \in Queries :
              IF FindRaises(students) THEN Crash
              ELSE LET results == find_students_by_name(students, query)
                   IN  IF results = <<>> THEN Reject(<<"no_matches">>)
                       ELSE IF ChooseRaises(results) THEN Crash
                       ELSE \E choice \in ChoicesFor(results) :
                              LET real_index == choose_from_results(results, choice)
                              IN  IF real_index = None
                                  THEN Reject(CancelMessages(results, choice))
                                  ELSE IF GradeRaises(students[real_index + 1]) THEN Crash
                                  ELSE UpdateOption(query, choice, real_index)

UpdateSave ==
    /\ pc = "updating"
    /\ \E outcome \in SaveOutcomes :
         /\ file' = save_students(students, outcome)
         /\ faults_left' = FaultsAfter(outcome)
         /\ out' = SaveMessages(outcome) \o <<"updated">>
    /\ pc' = "pause"
    /\ locals' = NoLocals
    /\ UNCHANGED students

(***************************************************************************)
(* delete_student: search, selection, confirmation; then (after the        *)
(* "Deleting" animation) the pop and the save.                             *)
(***************************************************************************)
\* the confirmation prompt, with the pop moved before it
DeleteConfirmEager(query, choice, real_index, confirm) ==
    IF upper(strip(confirm)) = DELETE
    THEN /\ pc' = "deleting"
         /\ out' = <<>>
         /\ locals' = [NoLocals EXCEPT !.query = query, !.choice = choice,
                                       !.real_index = real_index]
         /\ UNCHANGED <<students, file, faults_left>>
    ELSE /\ pc' = "pause"
         /\ out' = <<"cancelling">>
         /\ locals' = NoLocals
         /\ students' = pop(students, real_index)
         /\ UNCHANGED <<file, faults_left>>

DeleteConfirm(query, choice, real_index, confirm) ==
    IF upper(strip(confirm)) = DELETE
    THEN /\ pc' = "deleting"
         /\ out' = <<>>
         /\ locals' = [NoLocals EXCEPT !.query = query, !.choice = choice,
                                       !.real_index = real_index]
         /\ UNCHANGED <<students, file, faults_left>>
    ELSE Reject(<<"cancelling">>)

DeleteStudent ==
    /\ pc = "menu"
    /\ IF students = <<>> THEN Reject(<<"no_students">>)
       ELSE \E query \in Queries :
              IF FindRaises(students) THEN Crash
              ELSE LET results == find_students_by_name(students, query)
                   IN  IF results = <<>> THEN Reject(<<"no_matches">>)
                       ELSE IF ChooseRaises(results) THEN Crash
                       ELSE \E choice \in ChoicesFor(results) :
                              LET real_index == choose_from_results(results, choice)
                              IN  IF real_index = None
                                  THEN Reject(CancelMessages(results, choice))
                                  ELSE IF GradeRaises(students[real_index + 1]) THEN Crash
                                  ELSE \E confirm \in Confirmations :
                                         DeleteConfirm(query, choice, real_index, confirm)

DeletePop ==
    /\ pc = "deleting"
    /\ \E outcome \in SaveOutcomes :
         LET s == pop(students, locals.real_index)
         IN  /\ students' = s
             /\ file' = save_students(s, outcome)
             /\ faults_left' = FaultsAfter(outcome)
             /\ out' = SaveMessages(outcome) \o <<"deleted">>
    /\ pc' = "pause"
    /\ locals' = NoLocals

(***************************************************************************)
(* The program: main() from process start, data file absent.               *)
(***************************************************************************)
Init ==
    /\ pc = "start"
    /\ students = <<>>
    /\ file = AbsentFile
    /\ out = <<>>
    /\ locals = NoLocals
    /\ faults_left = 0

Next ==
    \/ LoadStudents
    \/ AddStudent
    \/ AddSave
    \/ DisplayStudents
    \/ SearchStudent
    \/ UpdateStudent
    \/ UpdateSave
    \/ DeleteStudent
    \/ DeletePop
    \/ ExportCsv
    \/ InvalidChoice
    \/ Continue
    \/ Exit
    \/ Interrupt

Spec == Init /\ [][Next]_vars

(***************************************************************************)
(* The same program on a disk where a save, an export or a read may fail  *)
(* with an IOError.                                                        *)
(***************************************************************************)
InitIO ==
    /\ pc = "start"
    /\ students = <<>>
    /\ file = AbsentFile
    /\ out = <<>>
    /\ locals = NoLocals
    /\ faults_left = MaxSaveFailures

SpecIO == InitIO /\ [][Next]_vars

(***************************************************************************)
(* The same program started on any data file: absent, not JSON, JSON that  *)
(* is no list, or a list whose elements may lack fields or hold values of  *)
(* other types (a hand-edited file).                                       *)
(***************************************************************************)
LoadEntries ==
    { ToDict(<<"a", "n", "a">>, 1, 0),
      Dict(JStr(<<"D", "a", "n">>), JInt(1), JStr(<<"x">>)),
      Dict(JInt(5), JInt(1), JFloat(0)),
      Dict(JStr(<<"A", "n", "a">>), JInt(1), Missing),
      Dict(JNull, JInt(1), JNull),
      NotADict }

SeqsUpTo(S, n) == UNION { [1..k -> S] : k \in 0..n }

FileContents ==
    {AbsentFile, NonListFile, GarbageFile}
        \cup { ListFile(l) : l \in SeqsUpTo(LoadEntries, MaxStudents) }

InitLoad ==
    /\ pc = "start"
    /\ students = <<>>
    /\ file \in FileContents
    /\ out = <<>>
    /\ locals = NoLocals
    /\ faults_left \in {0, MaxSaveFailures}

SpecLoad == InitLoad /\ [][Next]_vars

(***************************************************************************)
(* find_students_by_name and choose_from_results as functions: any store  *)
(* of well-formed records, any query, any choice.                          *)
(***************************************************************************)
ChooseEntries ==
    { ToDict(<<"a", "n", "a">>, 1, 0), ToDict(<<"d", "a", "n">>, 1, 0),
      ToDict(<<"b", "o">>, 1, 0), Dict(Missing, JInt(1), JFloat(0)) }

InitChoose ==
    /\ pc = "choose_call"
    /\ students \in SeqsUpTo(ChooseEntries, MaxChooseLen)
    /\ file = AbsentFile
    /\ out = <<>>
    /\ \E query \in Queries, choice \in Choices :
         locals = [NoLocals EXCEPT !.query = query, !.choice = choice]
    /\ faults_left = 0

ApplyChoose ==
    /\ pc = "choose_call"
    /\ pc' = "choose_return"
    /\ locals' = [locals EXCEPT !.real_index =
                     choose_from_results(find_students_by_name(students, locals.query),
                                         locals.choice)]
    /\ UNCHANGED <<students, file, out, faults_left>>

NextChoose == ApplyChoose

SpecChoose == InitChoose /\ [][NextChoose]_vars

(***************************************************************************)
(* Properties.                                                             *)
(***************************************************************************)
\* Title case: a cased character is upper case exactly when no cased
\* character precedes it.
IsTitleCase(s) ==
    \A i \in 1..Len(s) :
        /\ IsUpper(s[i]) => (i = 1 \/ ~IsCased(s[i - 1]))
        /\ IsLower(s[i]) => (i > 1 /\ IsCased(s[i - 1]))

ValidRecord(s) ==
    /\ s.dict
    /\ s.name.t = "str"
    /\ s.name.s # <<>>
    /\ \E i \in 1..Len(s.name.s) : ~IsDigit(s.name.s[i])
    /\ IsTitleCase(s.name.s)
    /\ s.age.t = "int"
    /\ 0 < s.age.n /\ s.age.n < 150
    /\ s.grade.t \in {"int", "float"}
    /\ 0 <= s.grade.n /\ s.grade.n <= 2000

\* C1: from an empty store, after any Add, Update and Delete, every record
\* of the store has a non-empty, not all-digit, title-case name, an integer
\* age with 0 < age < 150 and a numeric grade with 0.0 <= grade <= 20.0.
C1_StoreValid == \A i \in 1..Len(students) : ValidRecord(students[i])

C1_Witness ==
    /\ pc = "pause"
    /\ out = <<"updated">>
    /\ Len(students) = 2
    /\ students[1].name = JStr(<<"B", "o", " ", "B">>)
    /\ students[2].age = JInt(149)

MutationMessages == { <<"added">>, <<"updated">>, <<"deleted">> }

\* C2: with no I/O failure, when an Add, Update or Delete that changed the
\* store hands control back (its closing pause, then the menu), the data
\* file holds exactly the store: same records, same order.
C2_SavedAfterMutation ==
    (pc = "pause" /\ out \in MutationMessages) => file = ListFile(students)

C2_Witness ==
    /\ pc = "pause"
    /\ out = <<"deleted">>
    /\ Len(students) = 1
    /\ file = ListFile(students)

SaveFailed(o) == o # <<>> /\ o[1] = "save_error"

\* C3: when the save of an Add, Update or Delete fails with an I/O error,
\* the data file (here one that held a saved list) keeps exactly the content
\* it had before the save, and the program goes on to the menu.
C3_FailedSaveKeepsFile ==
    [][(/\ pc \in {"add_saving", "updating", "deleting"}
        /\ file.kind = "list"
        /\ SaveFailed(out'))
        => (file' = file /\ pc' = "pause")]_vars

\* C4: load (the file being readable) returns the empty list without a
\* warning when the file is absent, the parsed list when the file holds a
\* JSON list, and the empty list with a warning in every other case.
C4_LoadWarns ==
    [][(pc = "start" /\ pc' \in {"menu", "pause"} /\ faults_left' = faults_left)
        => IF file.kind = "absent" THEN students' = <<>> /\ out' = <<>>
           ELSE IF file.kind = "list" THEN students' = file.data /\ out' = <<>>
           ELSE students' = <<>> /\ out' = <<"load_warning">>]_vars

\* the store indexes whose name holds the query, ignoring case
MatchIndexes(studs, query) ==
    { i \in 0..(Len(studs) - 1) :
        LET nm == IF studs[i + 1].name.t = "str" THEN studs[i + 1].name.s ELSE <<>>
        IN  Contains(lower(strip(query)), lower(nm)) }

\* the k-th of them in store order
KthMatch(studs, query, k) ==
    CHOOSE i \in MatchIndexes(studs, query) :
        Cardinality({ j \in MatchIndexes(studs, query) : j < i }) = k - 1

\* the store index a choice selects among the matches, or None
SelectedIndex(studs, query, choice) ==
    LET n == Cardinality(MatchIndexes(studs, query))
    IN  IF n = 0 THEN None
        ELSE IF n = 1 THEN KthMatch(studs, query, 1)
        ELSE IF \E k \in 1..n : choice = <<Digits[k + 1]>>
        THEN KthMatch(studs, query, CHOOSE k \in 1..n : choice = <<Digits[k + 1]>>)
        ELSE None

\* C5: choose applied to the find_by_name results returns no selection on
\* no result, the single result's store index on one result, and on N >= 2
\* results the store index of the k-th candidate for input k in 1..N and no
\* selection for 0, an integer outside 1..N or a non-number; what it returns
\* is an index into the store, never a position in the filtered list.
C5_ChooseMapsBack ==
    pc = "choose_return" =>
        /\ locals.real_index = SelectedIndex(students, locals.query, locals.choice)
        /\ locals.real_index # None =>
               locals.real_index \in MatchIndexes(students, locals.query)

C5_Witness ==
    /\ pc = "choose_return"
    /\ Len(students) = 3
    /\ Cardinality(MatchIndexes(students, locals.query)) = 2
    /\ locals.choice = <<"2">>
    /\ locals.real_index = 2

C7_UpdateOneField ==
    [][/\ (pc = "menu" /\ pc' = "updating") =>
            LET i == locals'.real_index
                old == students[i + 1]
                new == students'[i + 1]
            IN  /\ i = SelectedIndex(students, locals'.query, locals'.choice)
                /\ i # None
                /\ Len(students') = Len(students)
                /\ \A j \in 1..Len(students) : j # i + 1 => students'[j] = students[j]
                /\ locals'.opt = <<"1">> =>
                       /\ new.name.t = "str"
                       /\ IsTitleCase(new.name.s)
                       /\ lower(new.name.s) = lower(locals'.name)
                       /\ new.age = old.age /\ new.grade = old.grade
                /\ locals'.opt = <<"2">> =>
                       /\ new.age = JInt(locals'.age)
                       /\ new.name = old.name /\ new.grade = old.grade
                /\ locals'.opt = <<"3">> =>
                       /\ new.grade = JFloat(locals'.grade)
                       /\ new.name = old.name /\ new.age = old.age
                /\ locals'.opt \in { <<"1">>, <<"2">>, <<"3">> }
       /\ (pc = "updating" /\ pc' = "pause") =>
            /\ students' = students
            /\ file' = ListFile(students')]_vars

C7_Witness ==
    /\ pc = "pause"
    /\ out = <<"updated">>
    /\ Len(students) = 2
    /\ students[2] = Dict(JStr(<<"A", "n", "a">>), JInt(1), JFloat(2000))
    /\ file = ListFile(students)

AbortMessages ==
    { <<"invalid_name">>, <<"invalid_age">>, <<"invalid_grade">>,
      <<"no_matches">>, <<"cancelling">>, <<"invalid_selection", "cancelling">>,
      <<"cancelled">>, <<"invalid_choice">> }

\* C8: an Add, Update or Delete that ends in a validation failure, "no
\* matches", an invalid or cancelled selection, a cancelled or invalid
\* sub-menu choice or an unconfirmed Delete leaves the store and the data
\* file as they were, and the program goes on to the menu.
C8_AbortChangesNothing ==
    [][(pc = "menu" /\ out' \in AbortMessages) =>
        (students' = students /\ file' = file /\ pc' = "pause")]_vars

C8_Witness ==
    /\ pc = "pause"
    /\ out = <<"invalid_selection", "cancelling">>
    /\ Len(students) = 2
    /\ file = ListFile(students)

\* C9: on both exit paths (menu choice 0, an interrupt at any point) the
\* process ends with the store equal to the content of the data file.
C9_ExitInSync ==
    pc = "exited" =>
        \/ file = ListFile(students)
        \/ file = AbsentFile /\ students = <<>>

\* C10: no error crashes the process, whatever list the data file held.
C10_NeverCrashes == pc # "crashed"

====
